---- MODULE Spec2Model ----
(***************************************************************************)
(* ruuls: a rules engine that evaluates a tree of requirements (Checklist) *)
(* against a field -> value map of facts and returns a mirrored tree of    *)
(* tri-state results (ChecklistResult).                                    *)
(*                                                                         *)
(* Strings that the code inspects character by character (fact values and  *)
(* the operand of StringEquals) are sequences of one-character strings.    *)
(* Field names and descriptions are only compared or copied, and stay      *)
(* plain strings.  The recursion of Checklist::check is a stack of frames, *)
(* one per active call.                                                    *)
(***************************************************************************)
EXTENDS Integers, Sequences, FiniteSets

VARIABLES rule, info, pc, stack, result, operands, outputs

vars == <<rule, info, pc, stack, result, operands, outputs>>

(***************************************************************************)
(* Bounds                                                                  *)
(***************************************************************************)
\* longest children vector of a one-level tree
MaxChildren == 3
\* longest generated fact value (the listed values are longer)
MaxValLen == 2

(***************************************************************************)
(* STATUS                                                                  *)
(***************************************************************************)
Status == {"Met", "NotMet", "Unknown"}

\* & without the arm (_, NotMet)
BitAndNoRhsArm(self, rhs) ==
    IF self = "Met" /\ rhs = "Met" THEN "Met"
    ELSE IF self = "NotMet" THEN "NotMet"
    ELSE "Unknown"

\* impl BitAnd for Status
BitAnd(self, rhs) ==
    IF self = "Met" /\ rhs = "Met" THEN "Met"
    ELSE IF self = "NotMet" \/ rhs = "NotMet" THEN "NotMet"
    ELSE "Unknown"

\* | without the arm (_, Met)
BitOrNoRhsArm(self, rhs) ==
    IF self = "NotMet" /\ rhs = "NotMet" THEN "NotMet"
    ELSE IF self = "Met" THEN "Met"
    ELSE "Unknown"

\* impl BitOr for Status
BitOr(self, rhs) ==
    IF self = "NotMet" /\ rhs = "NotMet" THEN "NotMet"
    ELSE IF self = "Met" \/ rhs = "Met" THEN "Met"
    ELSE "Unknown"

(***************************************************************************)
(* Strings                                                                 *)
(***************************************************************************)
Digits == {"0", "1", "2", "3", "4", "5", "6", "7", "8", "9"}

DigitValue(c) ==
    CASE c = "0" -> 0 [] c = "1" -> 1 [] c = "2" -> 2 [] c = "3" -> 3
      [] c = "4" -> 4 [] c = "5" -> 5 [] c = "6" -> 6 [] c = "7" -> 7
      [] c = "8" -> 8 [] c = "9" -> 9

\* char::to_lowercase on the characters the model uses
LowerChar(c) ==
    CASE c = "T" -> "t" [] c = "R" -> "r" [] c = "U" -> "u" [] c = "E" -> "e"
      [] c = "F" -> "f" [] c = "A" -> "a" [] c = "L" -> "l" [] c = "S" -> "s"
      [] c = "X" -> "x"
      [] OTHER -> c

\* a comparison that keeps the case of val
ToLowercaseIdentity(val) == val

\* str::to_lowercase
ToLowercase(val) == [i \in 1..Len(val) |-> LowerChar(val[i])]


(***************************************************************************)
(* str::parse::<i32>: an optional sign, then one or more decimal digits,   *)
(* accumulated with checked arithmetic in 32 bits.                         *)
(***************************************************************************)
I32Max == 2147483647
I32Min == -I32Max - 1

ParseErr == [ok |-> FALSE]
ParseOk(v) == [ok |-> TRUE, val |-> v]

RECURSIVE Accumulate(_, _, _)
Accumulate(digits, acc, is_positive) ==
    IF Len(digits) = 0 THEN ParseOk(acc)
    ELSE LET c == Head(digits) IN
         IF c \notin Digits THEN ParseErr
         ELSE LET x == DigitValue(c) IN
              IF is_positive
              THEN IF acc > I32Max \div 10 THEN ParseErr
                   ELSE IF acc * 10 > I32Max - x THEN ParseErr
                   ELSE Accumulate(Tail(digits), acc * 10 + x, is_positive)
              ELSE IF acc < -(I32Max \div 10) THEN ParseErr
                   ELSE IF acc * 10 < I32Min + x THEN ParseErr
                   ELSE Accumulate(Tail(digits), acc * 10 - x, is_positive)

\* a parser that reads the empty string as 0
ParseI32EmptyIsZero(src) ==
    IF Len(src) = 0 THEN ParseOk(0)
    ELSE IF src[1] \in {"+", "-"} /\ Len(src) = 1 THEN ParseErr
    ELSE IF src[1] = "+" THEN Accumulate(Tail(src), 0, TRUE)
    ELSE IF src[1] = "-" THEN Accumulate(Tail(src), 0, FALSE)
    ELSE Accumulate(src, 0, TRUE)

\* i32::from_str
ParseI32(src) ==
    IF Len(src) = 0 THEN ParseErr
    ELSE IF src[1] \in {"+", "-"} /\ Len(src) = 1 THEN ParseErr
    ELSE IF src[1] = "+" THEN Accumulate(Tail(src), 0, TRUE)
    ELSE IF src[1] = "-" THEN Accumulate(Tail(src), 0, FALSE)
    ELSE Accumulate(src, 0, TRUE)

(***************************************************************************)
(* CONSTRAINT                                                              *)
(***************************************************************************)
StringEquals(s) == [kind |-> "StringEquals", s |-> s]
IntEquals(i) == [kind |-> "IntEquals", i |-> i]
IntRange(start, end) == [kind |-> "IntRange", start |-> start, end |-> end]
Boolean(b) == [kind |-> "Boolean", b |-> b]

\* Constraint::check
ConstraintCheck(c, val) ==
    CASE c.kind = "StringEquals" ->
            IF val = c.s THEN "Met" ELSE "NotMet"
      [] c.kind = "IntEquals" ->
            LET parse_res == ParseI32(val) IN
            IF parse_res.ok
            THEN IF parse_res.val = c.i THEN "Met" ELSE "NotMet"
            ELSE "NotMet"
      [] c.kind = "IntRange" ->
            LET parse_res == ParseI32(val) IN
            IF parse_res.ok
            THEN IF c.start <= parse_res.val /\ parse_res.val <= c.end
                 THEN "Met" ELSE "NotMet"
            ELSE "NotMet"
      [] c.kind = "Boolean" ->
            LET bool_val == (ToLowercase(val) = <<"t", "r", "u", "e">>) IN
            IF bool_val = c.b THEN "Met" ELSE "NotMet"

(***************************************************************************)
(* CHECKLIST                                                               *)
(***************************************************************************)
And(checklists) == [kind |-> "And", checklists |-> checklists]
Or(checklists) == [kind |-> "Or", checklists |-> checklists]
NumberOf(count, checklists) ==
    [kind |-> "NumberOf", count |-> count, checklists |-> checklists]
Rule(name, field, constraint) ==
    [kind |-> "Rule", name |-> name, field |-> field, constraint |-> constraint]

\* CHECKLIST RESULT
ChecklistResult(name, status, children) ==
    [name |-> name, status |-> status, children |-> children]

\* format!("At least {} of", count)
AtLeastName(count) == <<"At least ", count, " of">>

(***************************************************************************)
(* One frame per active call of Checklist::check: the node being checked,  *)
(* the locals of its match arm and the children collected so far.          *)
(***************************************************************************)
\* frames whose And fold starts from Unknown
NewFrameAndStartsUnknown(node) ==
    CASE node.kind = "And" ->
            [node |-> node, status |-> "Unknown", children |-> <<>>]
      [] node.kind = "Or" ->
            [node |-> node, status |-> "NotMet", children |-> <<>>]
      [] node.kind = "NumberOf" ->
            [node |-> node, met_count |-> 0, failed_count |-> 0,
             children |-> <<>>]
      [] node.kind = "Rule" -> [node |-> node]

\* the locals of each match arm as the arm is entered
NewFrame(node) ==
    CASE node.kind = "And" ->
            [node |-> node, status |-> "Met", children |-> <<>>]
      [] node.kind = "Or" ->
            [node |-> node, status |-> "NotMet", children |-> <<>>]
      [] node.kind = "NumberOf" ->
            [node |-> node, met_count |-> 0, failed_count |-> 0,
             children |-> <<>>]
      [] node.kind = "Rule" -> [node |-> node]

\* the closure given to inspect, followed by collect's push
Inspect(frame, r) ==
    CASE frame.node.kind = "And" ->
            [frame EXCEPT !.status = BitAnd(frame.status, r.status),
                          !.children = Append(frame.children, r)]
      [] frame.node.kind = "Or" ->
            [frame EXCEPT !.status = BitOr(frame.status, r.status),
                          !.children = Append(frame.children, r)]
      [] frame.node.kind = "NumberOf" ->
            [frame EXCEPT
               !.met_count = IF r.status = "Met" THEN @ + 1 ELSE @,
               !.failed_count = IF r.status # "Met" /\ r.status = "NotMet"
                                THEN @ + 1 ELSE @,
               !.children = Append(frame.children, r)]

\* an iteration that stops once And or Or is decided
HasNextShortCircuit(frame) ==
    /\ Len(frame.children) < Len(frame.node.checklists)
    /\ frame.node.kind = "And" => frame.status # "NotMet"
    /\ frame.node.kind = "Or" => frame.status # "Met"

\* checklists.iter() has another element
HasNext(frame) == Len(frame.children) < Len(frame.node.checklists)

\* the cutoff len - count + 1 in usize arithmetic, which overflows when
\* count exceeds len
NumberOfStatusDocumented(frame) ==
    LET count == frame.node.count
        len == Len(frame.node.checklists) IN
    IF frame.met_count >= count THEN "Met"
    ELSE IF len < count THEN "Overflow"
    ELSE IF frame.failed_count >= len - count + 1 THEN "NotMet"
    ELSE "Unknown"

\* the status of a NumberOf node from its two counters
NumberOfStatus(frame) ==
    LET count == frame.node.count IN
    IF frame.met_count >= count THEN "Met"
    ELSE IF frame.failed_count >= count THEN "NotMet"
    ELSE "Unknown"

\* a lookup that treats an absent field as a failed constraint
RuleStatusAbsentNotMet(node) ==
    IF node.field \in DOMAIN info
    THEN ConstraintCheck(node.constraint, info[node.field])
    ELSE "NotMet"

\* the status of a single rule: the lookup of its field, then its constraint
RuleStatus(node) ==
    IF node.field \in DOMAIN info
    THEN ConstraintCheck(node.constraint, info[node.field])
    ELSE "Unknown"

\* the ChecklistResult a finished frame returns
FrameResult(frame) ==
    CASE frame.node.kind = "And" ->
            ChecklistResult(<<"And">>, frame.status, frame.children)
      [] frame.node.kind = "Or" ->
            ChecklistResult(<<"Or">>, frame.status, frame.children)
      [] frame.node.kind = "NumberOf" ->
            ChecklistResult(AtLeastName(frame.node.count),
                            NumberOfStatus(frame), frame.children)
      [] frame.node.kind = "Rule" ->
            ChecklistResult(<<frame.node.name>>, RuleStatus(frame.node), <<>>)

Top == stack[Len(stack)]

NoResult == [name |-> <<>>, status |-> "None", children |-> <<>>]

\* the caller invokes rule.check(&info)
Check ==
    /\ pc = "idle"
    /\ stack' = <<NewFrame(rule)>>
    /\ pc' = "checking"
    /\ UNCHANGED <<rule, info, result, operands, outputs>>

\* map(|c| c.check(info)) on the next child of the node on top
CallChild ==
    /\ pc = "checking"
    /\ Top.node.kind # "Rule"
    /\ HasNext(Top)
    /\ stack' = Append(stack, NewFrame(Top.node.checklists[Len(Top.children) + 1]))
    /\ UNCHANGED <<rule, info, pc, result, operands, outputs>>

\* the frame on top returns r to its caller
Return(r) ==
    IF Len(stack) = 1
    THEN /\ result' = r
         /\ stack' = <<>>
         /\ pc' = "done"
    ELSE /\ stack' = Append(SubSeq(stack, 1, Len(stack) - 2),
                            Inspect(stack[Len(stack) - 1], r))
         /\ UNCHANGED <<result, pc>>

ReturnAnd ==
    /\ pc = "checking"
    /\ Top.node.kind = "And"
    /\ ~HasNext(Top)
    /\ Return(FrameResult(Top))
    /\ UNCHANGED <<rule, info, operands, outputs>>

ReturnOr ==
    /\ pc = "checking"
    /\ Top.node.kind = "Or"
    /\ ~HasNext(Top)
    /\ Return(FrameResult(Top))
    /\ UNCHANGED <<rule, info, operands, outputs>>

ReturnNumberOf ==
    /\ pc = "checking"
    /\ Top.node.kind = "NumberOf"
    /\ ~HasNext(Top)
    /\ Return(FrameResult(Top))
    /\ UNCHANGED <<rule, info, operands, outputs>>

ReturnRule ==
    /\ pc = "checking"
    /\ Top.node.kind = "Rule"
    /\ Return(FrameResult(Top))
    /\ UNCHANGED <<rule, info, operands, outputs>>

(***************************************************************************)
(* Inputs                                                                  *)
(***************************************************************************)
\* all sequences over S of length at most n
SeqsUpTo(S, n) == UNION {[1..k -> S] : k \in 0..n}

\* all maps from some of the fields F to values in V
FactsOver(F, V) == UNION {[D -> V] : D \in SUBSET F}

Fields == {"foo", "bar"}

Alphabet == {"7", "-", "x"}

ListedValues ==
    { <<"t", "r", "u", "e">>, <<"t", "R", "u", "E">>, <<"T", "R", "U", "E">>,
      <<"f", "a", "l", "s", "e">>, <<"t", "r", "u", "e", " ">>,
      <<"1">>, <<"2">>, <<"+", "2">>, <<"0", "3">>, <<"b", "a", "r">>,
      <<"2", "1", "4", "7", "4", "8", "3", "6", "4", "7">>,
      <<"2", "1", "4", "7", "4", "8", "3", "6", "4", "8">>,
      <<"-", "2", "1", "4", "7", "4", "8", "3", "6", "4", "8">>,
      <<"-", "2", "1", "4", "7", "4", "8", "3", "6", "4", "9">>,
      <<"3", "0", "0", "0", "0", "0", "0", "0", "0", "0">> }

Values == ListedValues \cup SeqsUpTo(Alphabet, MaxValLen)

Constraints ==
    { StringEquals(<<"1">>), StringEquals(<<"b", "a", "r">>), StringEquals(<<>>),
      IntEquals(1), IntEquals(2), IntEquals(-7), IntEquals(I32Max),
      IntEquals(I32Min),
      IntRange(1, 3), IntRange(2, 3), IntRange(-7, 7), IntRange(3, 1),
      IntRange(I32Min, I32Max),
      Boolean(TRUE), Boolean(FALSE) }

\* single rules of every constraint kind, checked against arbitrary values
LeafRules == {Rule("rule", f, c) : f \in Fields, c \in Constraints}

LeafFacts == FactsOver(Fields, Values)

\* the leaves of the trees: Met, NotMet or Unknown depending on the facts
TreeLeaves ==
    { Rule("foo = 1", "foo", IntEquals(1)),
      Rule("bar = 'baz'", "bar", StringEquals(<<"b", "a", "z">>)),
      Rule("quux = 2", "quux", IntEquals(2)) }

TreeValues == {<<"1">>, <<"b", "a", "z">>}

TreeFacts == FactsOver(Fields, TreeValues)

\* the combinators over a children vector cs, with every threshold up to
\* one more than maxCount
Combinators(cs, maxCount) ==
    {And(cs), Or(cs)} \cup {NumberOf(n, cs) : n \in 0..(maxCount + 1)}

FlatRules ==
    UNION {Combinators(cs, MaxChildren) : cs \in SeqsUpTo(TreeLeaves, MaxChildren)}

InnerRules ==
    UNION {Combinators(cs, 1) : cs \in SeqsUpTo(TreeLeaves, 1)}

NestedRules ==
    UNION {Combinators(cs, 2) :
             cs \in {<<i>> : i \in InnerRules}
                    \cup {<<l, i>> : l \in TreeLeaves, i \in InnerRules}
                    \cup {<<i, l>> : i \in InnerRules, l \in TreeLeaves}}

TreeRules == FlatRules \cup NestedRules

(***************************************************************************)
(* Specification of check                                                  *)
(***************************************************************************)
Init ==
    /\ \/ rule \in TreeRules /\ info \in TreeFacts
       \/ rule \in LeafRules /\ info \in LeafFacts
    /\ pc = "idle"
    /\ stack = <<>>
    /\ result = NoResult
    /\ operands = <<>>
    /\ outputs = <<>>

Next ==
    \/ Check
    \/ CallChild
    \/ ReturnAnd
    \/ ReturnOr
    \/ ReturnNumberOf
    \/ ReturnRule

Spec == Init /\ [][Next]_vars

\* every call that has started keeps running until it returns
FairSpec == Spec /\ WF_vars(Next)

(***************************************************************************)
(* Specification of the status operators: a pair or triple of operands is  *)
(* drawn and & and | are applied to it in both orders and groupings.       *)
(***************************************************************************)
InitAlgebra ==
    /\ rule = And(<<>>)
    /\ info = <<>>
    /\ pc = "idle"
    /\ stack = <<>>
    /\ result = NoResult
    /\ operands \in Status \X Status \X Status
    /\ outputs = [and |-> <<>>, or |-> <<>>]

ApplyBitAnd ==
    /\ outputs.and = <<>>
    /\ LET a == operands[1]
           b == operands[2]
           c == operands[3] IN
       outputs' = [outputs EXCEPT !.and =
                     [ab |-> BitAnd(a, b), ba |-> BitAnd(b, a),
                      ab_c |-> BitAnd(BitAnd(a, b), c),
                      a_bc |-> BitAnd(a, BitAnd(b, c))]]
    /\ UNCHANGED <<rule, info, pc, stack, result, operands>>

ApplyBitOr ==
    /\ outputs.or = <<>>
    /\ LET a == operands[1]
           b == operands[2]
           c == operands[3] IN
       outputs' = [outputs EXCEPT !.or =
                     [ab |-> BitOr(a, b), ba |-> BitOr(b, a),
                      ab_c |-> BitOr(BitOr(a, b), c),
                      a_bc |-> BitOr(a, BitOr(b, c))]]
    /\ UNCHANGED <<rule, info, pc, stack, result, operands>>

NextAlgebra == ApplyBitAnd \/ ApplyBitOr

SpecAlgebra == InitAlgebra /\ [][NextAlgebra]_vars

(***************************************************************************)
(* Reading a finished check                                                *)
(***************************************************************************)
\* every node of the checklist c with the node of the result r at its place
RECURSIVE NodePairs(_, _)
NodePairs(c, r) ==
    {<<c, r>>} \cup
    IF c.kind = "Rule" THEN {}
    ELSE UNION {NodePairs(c.checklists[i], r.children[i]) :
                  i \in DOMAIN c.checklists \cap DOMAIN r.children}

Checked == IF pc = "done" THEN NodePairs(rule, result) ELSE {}

CheckedOf(kind) == {p \in Checked : p[1].kind = kind}

\* how many of the child results have status s
CountOf(children, s) ==
    Cardinality({i \in DOMAIN children : children[i].status = s})

RECURSIVE FoldStatus(_, _, _, _)
FoldStatus(Op(_, _), acc, children, i) ==
    IF i > Len(children) THEN acc
    ELSE FoldStatus(Op, Op(acc, children[i].status), children, i + 1)

(***************************************************************************)
(* NumberOf                                                                *)
(***************************************************************************)
\* the status n_of documents for threshold n over the child results
DocumentedNumberOfStatus(n, children) ==
    IF CountOf(children, "Met") >= n THEN "Met"
    ELSE IF CountOf(children, "NotMet") >= Len(children) - n + 1 THEN "NotMet"
    ELSE "Unknown"

\* C1: a NumberOf node whose threshold is at most its number of children is
\* Met when at least threshold children are Met, otherwise NotMet when at
\* least len(children) - threshold + 1 children are NotMet, otherwise Unknown.
NumberOfFollowsDocumentedFormula ==
    \A p \in CheckedOf("NumberOf") :
        p[1].count <= Len(p[1].checklists)
        => p[2].status = DocumentedNumberOfStatus(p[1].count, p[2].children)

\* C2: a NumberOf node without children is Met when its threshold is 0 and
\* NotMet when its threshold is positive, never Unknown.
EmptyNumberOfIsDecided ==
    \A p \in CheckedOf("NumberOf") :
        Len(p[1].checklists) = 0
        => p[2].status = IF p[1].count = 0 THEN "Met" ELSE "NotMet"

(***************************************************************************)
(* Rule                                                                    *)
(***************************************************************************)
\* C3: the result of a single rule is Unknown exactly when its field is
\* absent from the facts; when the field is present it is Met or NotMet.
RuleUnknownIffFieldAbsent ==
    \A p \in CheckedOf("Rule") :
        /\ p[2].status = "Unknown" <=> p[1].field \notin DOMAIN info
        /\ p[1].field \in DOMAIN info => p[2].status \in {"Met", "NotMet"}

\* a finished check with one rule on an absent field and one on a present
\* field, while the facts are not empty
RuleUnknownIffFieldAbsentWitness ==
    /\ \E p \in CheckedOf("Rule") :
          p[1].field \notin DOMAIN info /\ p[2].status = "Unknown"
    /\ \E p \in CheckedOf("Rule") :
          p[1].field \in DOMAIN info /\ p[2].status = "NotMet"

(***************************************************************************)
(* And, Or                                                                 *)
(***************************************************************************)
\* C4: an And node is NotMet when some child is NotMet, otherwise Unknown
\* when some child is Unknown, otherwise Met (an empty And is Met); this is
\* the left fold of & over the child statuses starting from Met.
AndAggregatesChildren ==
    \A p \in CheckedOf("And") :
        LET children == p[2].children IN
        /\ p[2].status =
              IF CountOf(children, "NotMet") > 0 THEN "NotMet"
              ELSE IF CountOf(children, "Unknown") > 0 THEN "Unknown"
              ELSE "Met"
        /\ p[2].status = FoldStatus(BitAnd, "Met", children, 1)

\* a finished And with Met, NotMet and Unknown children
AndAggregatesChildrenWitness ==
    /\ pc = "done"
    /\ rule.kind = "And"
    /\ Len(result.children) = MaxChildren
    /\ CountOf(result.children, "NotMet") > 0
    /\ CountOf(result.children, "Unknown") > 0
    /\ CountOf(result.children, "Met") > 0
    /\ result.status = "NotMet"

\* C5: an Or node is Met when some child is Met, otherwise Unknown when
\* some child is Unknown, otherwise NotMet (an empty Or is NotMet); this is
\* the left fold of | over the child statuses starting from NotMet.
OrAggregatesChildren ==
    \A p \in CheckedOf("Or") :
        LET children == p[2].children IN
        /\ p[2].status =
              IF CountOf(children, "Met") > 0 THEN "Met"
              ELSE IF CountOf(children, "Unknown") > 0 THEN "Unknown"
              ELSE "NotMet"
        /\ p[2].status = FoldStatus(BitOr, "NotMet", children, 1)

\* a finished Or whose first child is NotMet and a later one Met
OrAggregatesChildrenWitness ==
    /\ pc = "done"
    /\ rule.kind = "Or"
    /\ Len(result.children) >= 2
    /\ result.children[1].status = "NotMet"
    /\ CountOf(result.children, "Unknown") > 0
    /\ CountOf(result.children, "Met") > 0
    /\ result.status = "Met"

(***************************************************************************)
(* Status operators                                                        *)
(***************************************************************************)
\* C6: & and | on Status are commutative and associative.
OperatorsCommutativeAssociative ==
    /\ outputs.and # <<>> =>
          /\ outputs.and.ab = outputs.and.ba
          /\ outputs.and.ab_c = outputs.and.a_bc
    /\ outputs.or # <<>> =>
          /\ outputs.or.ab = outputs.or.ba
          /\ outputs.or.ab_c = outputs.or.a_bc

\* both operators applied to Unknown, NotMet, Met: the deciding operand is
\* on the right of & and the grouping decides which pair is evaluated first
OperatorsCommutativeAssociativeWitness ==
    /\ operands = <<"Unknown", "NotMet", "Met">>
    /\ outputs.and # <<>>
    /\ outputs.or # <<>>
    /\ outputs.and.ab = "NotMet"
    /\ outputs.or.a_bc = "Met"

(***************************************************************************)
(* Shape of the result                                                     *)
(***************************************************************************)
\* the name check gives to the result of node c
NameOf(c) ==
    CASE c.kind = "And" -> <<"And">>
      [] c.kind = "Or" -> <<"Or">>
      [] c.kind = "NumberOf" -> AtLeastName(c.count)
      [] c.kind = "Rule" -> <<c.name>>

RECURSIVE Mirrors(_, _)
Mirrors(c, r) ==
    /\ r.name = NameOf(c)
    /\ IF c.kind = "Rule"
       THEN /\ r.children = <<>>
            /\ r.status = RuleStatus(c)
       ELSE /\ Len(r.children) = Len(c.checklists)
            /\ \A i \in DOMAIN c.checklists :
                  Mirrors(c.checklists[i], r.children[i])

\* C7: the result has one node per checklist node and the same shape: every
\* combinator's result has one child per child of the combinator, in the
\* same order, each the result of that child; a rule's result has none.
\* No child is skipped, whatever its siblings' statuses.
ResultMirrorsChecklist == pc = "done" => Mirrors(rule, result)

\* a finished And whose first child is NotMet and an Or whose first child
\* is Met, each with a later child that is still reported
ResultMirrorsChecklistWitness ==
    /\ \E p \in CheckedOf("And") :
          /\ Len(p[2].children) >= 2
          /\ p[2].children[1].status = "NotMet"
    /\ \E p \in CheckedOf("Or") :
          /\ Len(p[2].children) >= 1
          /\ p[2].children[1].status = "Met"
    /\ Cardinality(Checked) >= 4

(***************************************************************************)
(* Constraints                                                             *)
(***************************************************************************)
\* val without its sign
Unsigned(val) ==
    IF Len(val) > 0 /\ val[1] \in {"+", "-"} THEN Tail(val) ELSE val

RECURSIVE WithoutLeadingZeros(_)
WithoutLeadingZeros(d) ==
    IF Len(d) > 0 /\ d[1] = "0" THEN WithoutLeadingZeros(Tail(d)) ELSE d

\* the digit string m denotes a larger number than the digit string lim
Exceeds(m, lim) ==
    \/ Len(m) > Len(lim)
    \/ /\ Len(m) = Len(lim)
       /\ \E i \in DOMAIN m :
             /\ DigitValue(m[i]) > DigitValue(lim[i])
             /\ \A j \in 1..(i - 1) : m[j] = lim[j]

\* val is the decimal notation of a 32-bit signed integer
IsI32Literal(val) ==
    LET d == Unsigned(val) IN
    /\ Len(d) > 0
    /\ \A i \in DOMAIN d : d[i] \in Digits
    /\ ~Exceeds(WithoutLeadingZeros(d),
                IF val[1] = "-"
                THEN <<"2", "1", "4", "7", "4", "8", "3", "6", "4", "8">>
                ELSE <<"2", "1", "4", "7", "4", "8", "3", "6", "4", "7">>)

\* the rules whose field is present, with the value the constraint is given
Constrained == {p \in CheckedOf("Rule") : p[1].field \in DOMAIN info}

\* C8: a constraint never evaluates to Unknown: the result is Met or NotMet
\* for every constraint and value, and IntEquals and IntRange give NotMet
\* for a value that is not the decimal notation of a signed integer.
ConstraintNeverUnknown ==
    \A p \in Constrained :
        LET c == p[1].constraint
            val == info[p[1].field] IN
        /\ p[2].status \in {"Met", "NotMet"}
        /\ c.kind \in {"IntEquals", "IntRange"} /\ ~IsI32Literal(val)
           => p[2].status = "NotMet"

\* a range over all of i32 checked against digits that overflow i32
ConstraintNeverUnknownWitness ==
    /\ pc = "done"
    /\ rule.kind = "Rule"
    /\ rule.constraint = IntRange(I32Min, I32Max)
    /\ rule.field \in DOMAIN info
    /\ Len(info[rule.field]) >= 10
    /\ \A i \in DOMAIN info[rule.field] : info[rule.field][i] \in Digits
    /\ ~IsI32Literal(info[rule.field])
    /\ result.status = "NotMet"

\* val is the word true in any mix of upper and lower case
IsTrueIgnoringCase(val) ==
    /\ Len(val) = 4
    /\ val[1] \in {"t", "T"}
    /\ val[2] \in {"r", "R"}
    /\ val[3] \in {"u", "U"}
    /\ val[4] \in {"e", "E"}

\* C9: Boolean(expected) reads the value as true exactly when it is the
\* word true ignoring case, and as false for every other string; the result
\* is Met iff that boolean equals expected, otherwise NotMet.
BooleanReadsTrueIgnoringCase ==
    \A p \in Constrained :
        p[1].constraint.kind = "Boolean"
        => p[2].status =
              IF IsTrueIgnoringCase(info[p[1].field]) = p[1].constraint.b
              THEN "Met" ELSE "NotMet"

\* Boolean(true) checked against a mixed-case true
BooleanReadsTrueIgnoringCaseWitness ==
    /\ pc = "done"
    /\ rule.kind = "Rule"
    /\ rule.constraint = Boolean(TRUE)
    /\ rule.field \in DOMAIN info
    /\ info[rule.field] = <<"t", "R", "u", "E">>
    /\ result.status = "Met"

(***************************************************************************)
(* Totality                                                                *)
(***************************************************************************)
\* every node of the result r carries a Status
RECURSIVE StatusesValid(_)
StatusesValid(r) ==
    /\ r.status \in Status
    /\ \A i \in DOMAIN r.children : StatusesValid(r.children[i])

\* C10: check is total: on every checklist and facts it returns, and every
\* node of the returned result carries Met, NotMet or Unknown; a NumberOf
\* whose threshold exceeds its number of children is no exception.
CheckIsTotal == <>(pc = "done" /\ StatusesValid(result))

\* a finished NumberOf whose threshold exceeds its number of children
CheckIsTotalWitness ==
    /\ pc = "done"
    /\ \E p \in CheckedOf("NumberOf") :
          /\ p[1].count > Len(p[1].checklists)
          /\ Len(p[1].checklists) > 0
          /\ p[2].status \in Status

(***************************************************************************)
(* Checks of one checklist while the facts grow                            *)
(***************************************************************************)
\* info with the fact field -> val added
WithFact(field, val) ==
    [f \in DOMAIN info \cup {field} |-> IF f = field THEN val ELSE info[f]]

\* map.insert(field, val) after a check, for a field that has no fact yet:
\* no fact is removed or changed.  The caller still holds the result of the
\* check before and checks the same checklist again.
Insert ==
    /\ pc = "done"
    /\ \E field \in Fields \ DOMAIN info, val \in TreeValues :
          info' = WithFact(field, val)
    /\ pc' = "idle"
    /\ UNCHANGED <<rule, stack, result, operands, outputs>>

InitGrow ==
    /\ rule \in TreeRules
    /\ info \in TreeFacts
    /\ pc = "idle"
    /\ stack = <<>>
    /\ result = NoResult
    /\ operands = <<>>
    /\ outputs = <<>>

NextGrow ==
    \/ Check
    \/ CallChild
    \/ ReturnAnd
    \/ ReturnOr
    \/ ReturnNumberOf
    \/ ReturnRule
    \/ Insert

SpecGrow == InitGrow /\ [][NextGrow]_vars

\* every node of the result old with the node of the result new at its place
RECURSIVE ResultPairs(_, _)
ResultPairs(old, new) ==
    {<<old, new>>} \cup
    UNION {ResultPairs(old.children[i], new.children[i]) :
             i \in DOMAIN old.children \cap DOMAIN new.children}

\* a check returns while the result of the check before is still held
ChecksAgain == pc = "checking" /\ pc' = "done" /\ result # NoResult

\* C11: over checks of one checklist against facts that only grow, a node
\* that was Met or NotMet has the same status in the next check, and so in
\* every later one; only Unknown may change.  In particular a NumberOf node
\* that is NotMet cannot become Met when its Unknown children are decided.
VerdictsStable ==
    [][ChecksAgain =>
         \A p \in ResultPairs(result, result') :
             p[1].status \in {"Met", "NotMet"} => p[2].status = p[1].status]_vars

====
